---- MODULE Spec2Model ----
(***************************************************************************)
(* Order-tracking lookup and carrier-tracking normalisation pipeline of    *)
(* the smart-order-tracking app.                                           *)
(*                                                                         *)
(* Strings are sequences of symbols.  A symbol is one character, or, in a  *)
(* URL template, one opaque chunk of the template.  JavaScript strings are *)
(* taken to be well-formed Unicode, so encodeURIComponent is total.        *)
(* A JavaScript object is a record that has exactly the properties the     *)
(* code sets; a property the code never sets is absent from DOMAIN.        *)
(***************************************************************************)
EXTENDS Integers, Sequences, FiniteSets, TLC

(***************************************************************************)
(* Strings                                                                 *)
(***************************************************************************)

\* null / undefined: a one-symbol sequence whose symbol is no character
Null == <<"null">>

UpperChars == <<"A","B","C","D","E","F","G","H","I","J","K","L","M",
                "N","O","P","Q","R","S","T","U","V","W","X","Y","Z">>

LowerChars == <<"a","b","c","d","e","f","g","h","i","j","k","l","m",
                "n","o","p","q","r","s","t","u","v","w","x","y","z">>

\* one character of String.prototype.toLowerCase
LowerChar(c) ==
  IF \E i \in 1..Len(UpperChars) : UpperChars[i] = c
  THEN LowerChars[CHOOSE i \in 1..Len(UpperChars) : UpperChars[i] = c]
  ELSE c

\* String.prototype.toLowerCase
toLowerCase(s) == [i \in 1..Len(s) |-> LowerChar(s[i])]

\* String.prototype.includes
includes(s, sub) ==
  \E i \in 0..(Len(s) - Len(sub)) :
    \A j \in 1..Len(sub) : s[i + j] = sub[j]

\* JavaScript truthiness of a string-or-null value
Truthy(s) == s # Null /\ s # <<>>

\* characters encodeURIComponent escapes, with their escape sequences
EscapedChars == <<" ", "#", "@", "+", "/", "?", "=", ":">>

EscapeCodes == << <<"%","2","0">>, <<"%","2","3">>, <<"%","4","0">>,
                  <<"%","2","B">>, <<"%","2","F">>, <<"%","3","F">>,
                  <<"%","3","D">>, <<"%","3","A">> >>

EncodeChar(c) ==
  IF \E i \in 1..Len(EscapedChars) : EscapedChars[i] = c
  THEN EscapeCodes[CHOOSE i \in 1..Len(EscapedChars) : EscapedChars[i] = c]
  ELSE <<c>>

RECURSIVE encodeURIComponent(_)
encodeURIComponent(s) ==
  IF s = <<>> THEN <<>>
  ELSE EncodeChar(Head(s)) \o encodeURIComponent(Tail(s))

\* decodeURIComponent, as applied to route parameters, on encoder output
RECURSIVE decodeURIComponent(_)
decodeURIComponent(s) ==
  IF s = <<>> THEN <<>>
  ELSE IF Len(s) >= 3 /\ \E i \in 1..Len(EscapeCodes) : EscapeCodes[i] = SubSeq(s, 1, 3)
  THEN <<EscapedChars[CHOOSE i \in 1..Len(EscapeCodes) : EscapeCodes[i] = SubSeq(s, 1, 3)]>>
         \o decodeURIComponent(SubSeq(s, 4, Len(s)))
  ELSE <<Head(s)>> \o decodeURIComponent(Tail(s))

(***************************************************************************)
(* TrackingService (src/server/services/trackingService.js)                *)
(***************************************************************************)

key_ups == <<"u","p","s">>
key_fedex == <<"f","e","d","e","x">>
key_usps == <<"u","s","p","s">>
key_dhl == <<"d","h","l">>
key_canada_post == <<"c","a","n","a","d","a"," ","p","o","s","t">>
key_royal_mail == <<"r","o","y","a","l"," ","m","a","i","l">>
key_australia_post == <<"a","u","s","t","r","a","l","i","a"," ","p","o","s","t">>

\* the trackingUrls table of getFallbackTracking, in insertion order:
\* key and the URL template the tracking number is appended to
trackingUrls == <<
  [key |-> key_ups,    url |-> <<"https://www.", "ups.com", "/track?tracknum=">>],
  [key |-> key_fedex,  url |-> <<"https://www.", "fedex.com", "/fedextrack/?trknbr=">>],
  [key |-> key_usps,   url |-> <<"https://tools.", "usps.com", "/go/TrackConfirmAction?tLabels=">>],
  [key |-> key_dhl,    url |-> <<"https://www.", "dhl.com", "/en/express/tracking.html?AWB=">>],
  [key |-> key_canada_post,
   url |-> <<"https://www.", "canadapost-postescanada.ca", "/track-reperage/en#/search?searchFor=">>],
  [key |-> key_royal_mail,
   url |-> <<"https://www.", "royalmail.com", "/track-your-item#/tracking-results/">>],
  [key |-> key_australia_post,
   url |-> <<"https://", "auspost.com.au", "/mypost/track/#/details/">>] >>

googleSearch == <<"https://www.", "google.com", "/search?q=">>

s_tracking == <<" ","t","r","a","c","k","i","n","g"," ">>

st_Delivered == <<"D","e","l","i","v","e","r","e","d">>
st_OutForDelivery == <<"O","u","t"," ","f","o","r"," ","D","e","l","i","v","e","r","y">>
st_InTransit == <<"I","n"," ","T","r","a","n","s","i","t">>
st_PickedUp == <<"P","i","c","k","e","d"," ","U","p">>
st_Processing == <<"P","r","o","c","e","s","s","i","n","g">>
st_Exception == <<"E","x","c","e","p","t","i","o","n">>
st_Returned == <<"R","e","t","u","r","n","e","d">>
st_Unknown == <<"U","n","k","n","o","w","n">>

kw_delivered == <<"d","e","l","i","v","e","r","e","d">>
kw_out_for_delivery == <<"o","u","t"," ","f","o","r"," ","d","e","l","i","v","e","r","y">>
kw_in_transit == <<"i","n"," ","t","r","a","n","s","i","t">>
kw_on_the_way == <<"o","n"," ","t","h","e"," ","w","a","y">>
kw_picked_up == <<"p","i","c","k","e","d"," ","u","p">>
kw_collected == <<"c","o","l","l","e","c","t","e","d">>
kw_processing == <<"p","r","o","c","e","s","s","i","n","g">>
kw_preparing == <<"p","r","e","p","a","r","i","n","g">>
kw_exception == <<"e","x","c","e","p","t","i","o","n">>
kw_delayed == <<"d","e","l","a","y","e","d">>
kw_returned == <<"r","e","t","u","r","n","e","d">>

\* normalizeStatus with the first two tests exchanged
normalizeStatusSwapped(status) ==
  IF ~Truthy(status) THEN st_Unknown
  ELSE LET statusLower == toLowerCase(status) IN
    IF includes(statusLower, kw_out_for_delivery) THEN st_OutForDelivery
    ELSE IF includes(statusLower, kw_delivered) THEN st_Delivered
    ELSE IF includes(statusLower, kw_in_transit) \/ includes(statusLower, kw_on_the_way)
      THEN st_InTransit
    ELSE IF includes(statusLower, kw_picked_up) \/ includes(statusLower, kw_collected)
      THEN st_PickedUp
    ELSE IF includes(statusLower, kw_processing) \/ includes(statusLower, kw_preparing)
      THEN st_Processing
    ELSE IF includes(statusLower, kw_exception) \/ includes(statusLower, kw_delayed)
      THEN st_Exception
    ELSE IF includes(statusLower, kw_returned) THEN st_Returned
    ELSE status

\* TrackingService.normalizeStatus
normalizeStatus(status) ==
  IF ~Truthy(status) THEN st_Unknown
  ELSE LET statusLower == toLowerCase(status) IN
    IF includes(statusLower, kw_delivered) THEN st_Delivered
    ELSE IF includes(statusLower, kw_out_for_delivery) THEN st_OutForDelivery
    ELSE IF includes(statusLower, kw_in_transit) \/ includes(statusLower, kw_on_the_way)
      THEN st_InTransit
    ELSE IF includes(statusLower, kw_picked_up) \/ includes(statusLower, kw_collected)
      THEN st_PickedUp
    ELSE IF includes(statusLower, kw_processing) \/ includes(statusLower, kw_preparing)
      THEN st_Processing
    ELSE IF includes(statusLower, kw_exception) \/ includes(statusLower, kw_delayed)
      THEN st_Exception
    ELSE IF includes(statusLower, kw_returned) THEN st_Returned
    ELSE status

\* the for..of loop of getFallbackTracking: first table entry that matches
FallbackMatches(carrierLower, i) ==
  \/ includes(carrierLower, trackingUrls[i].key)
  \/ includes(trackingUrls[i].key, carrierLower)

FallbackUrl(carrier, trackingNumber) ==
  LET carrierLower == toLowerCase(carrier)
      hits == {i \in 1..Len(trackingUrls) : FallbackMatches(carrierLower, i)}
  IN IF hits # {}
     THEN trackingUrls[CHOOSE i \in hits : \A j \in hits : i <= j].url \o trackingNumber
     ELSE googleSearch \o encodeURIComponent(carrier \o s_tracking \o trackingNumber)

\* getFallbackTracking that leaves trackingUrl null when no table entry matches
getFallbackTrackingNoSearch(carrier, trackingNumber) ==
  LET carrierLower == toLowerCase(carrier)
      hits == {i \in 1..Len(trackingUrls) : FallbackMatches(carrierLower, i)}
  IN [success |-> TRUE, carrier |-> carrier, trackingNumber |-> trackingNumber,
      status |-> st_InTransit, message |-> "Live tracking data not available. Please check the carrier website for updates.",
      trackingUrl |-> IF hits # {}
                      THEN trackingUrls[CHOOSE i \in hits : \A j \in hits : i <= j].url
                             \o trackingNumber
                      ELSE Null,
      events |-> <<>>, isLiveData |-> FALSE]

\* TrackingService.getFallbackTracking
getFallbackTracking(carrier, trackingNumber) ==
  [success |-> TRUE, carrier |-> carrier, trackingNumber |-> trackingNumber,
   status |-> st_InTransit, message |-> "Live tracking data not available. Please check the carrier website for updates.",
   trackingUrl |-> FallbackUrl(carrier, trackingNumber),
   events |-> <<>>, isLiveData |-> FALSE]

c_UPS == <<"U","P","S">>
c_FedEx == <<"F","e","d","E","x">>
c_USPS == <<"U","S","P","S">>
c_DHL == <<"D","H","L">>

AdapterNames == {"ups", "fedex", "usps", "dhl"}

\* the carrier label each adapter passes on, and its own URL template
AdapterLabel(a) ==
  CASE a = "ups" -> c_UPS [] a = "fedex" -> c_FedEx
    [] a = "usps" -> c_USPS [] a = "dhl" -> c_DHL

AdapterUrl(a) ==
  CASE a = "ups" -> trackingUrls[1].url [] a = "fedex" -> trackingUrls[2].url
    [] a = "usps" -> trackingUrls[3].url [] a = "dhl" -> trackingUrls[4].url

\* a switch whose 'usps' case falls into the UPS adapter
SelectAdapterUspsAsUps(carrier) ==
  LET carrierLower == toLowerCase(carrier) IN
    IF includes(carrierLower, key_ups) \/ includes(carrierLower, key_usps) THEN "ups"
    ELSE IF includes(carrierLower, key_fedex) THEN "fedex"
    ELSE IF includes(carrierLower, key_dhl) THEN "dhl"
    ELSE "fallback"

\* the switch (true) of getTrackingInfo
SelectAdapter(carrier) ==
  LET carrierLower == toLowerCase(carrier) IN
    IF includes(carrierLower, key_ups) THEN "ups"
    ELSE IF includes(carrierLower, key_fedex) THEN "fedex"
    ELSE IF includes(carrierLower, key_usps) THEN "usps"
    ELSE IF includes(carrierLower, key_dhl) THEN "dhl"
    ELSE "fallback"

\* an adapter that attempts the live call whether or not its key is configured
hasApiKeyIgnored(a, keys) == TRUE

\* the test each adapter starts with: if (!this.apiKeys.ups) on the key of its
\* own carrier
hasApiKey(a, keys) == a \in keys

\* the snapshot an adapter builds from a carrier response that has tracking info
LiveSnapshot(a, trackingNumber, description) ==
  [success |-> TRUE, carrier |-> AdapterLabel(a), trackingNumber |-> trackingNumber,
   status |-> normalizeStatus(description),
   trackingUrl |-> AdapterUrl(a) \o trackingNumber,
   events |-> <<>>]

\* an adapter whose final `return this.getFallbackTracking(...)` is missing:
\* a failed or empty carrier response leaves the result undefined
AdapterAfterRequestNoFinalReturn(a, trackingNumber, out) ==
  IF out.kind = "info"
  THEN LiveSnapshot(a, trackingNumber, out.description)
  ELSE [undefined |-> TRUE]

\* getUPSTracking / getFedExTracking / getUSPSTracking / getDHLTracking after
\* the carrier request settled with outcome out: the try block returns the live
\* snapshot when the response carries tracking info; an exception (request
\* failed, response without data) is caught and logged; every other path ends
\* in the fallback
AdapterAfterRequest(a, trackingNumber, out) ==
  IF out.kind = "info"
  THEN LiveSnapshot(a, trackingNumber, out.description)
  ELSE getFallbackTracking(AdapterLabel(a), trackingNumber)

RequiredError == [success |-> FALSE, error |-> "Carrier and tracking number are required"]


\* the value getTrackingInfo resolves with once the selected adapter settled;
\* an adapter that throws is caught by the try of getTrackingInfo
getTrackingInfoCatch(completion, carrier, trackingNumber) ==
  IF completion.kind = "throw"
  THEN [kind |-> "return", value |-> getFallbackTracking(carrier, trackingNumber)]
  ELSE completion

(***************************************************************************)
(* Inputs of the tracking client                                           *)
(***************************************************************************)

\* longest raw carrier status, in fragments
MaxFrags == 2

f_Delivered == <<"D","e","l","i","v","e","r","e","d">>
f_to_front_door == <<" ","t","o"," ","f","r","o","n","t"," ","d","o","o","r">>
f_Package_is == <<"P","a","c","k","a","g","e"," ","i","s"," ">>
f_out_for_delivery == <<"o","u","t"," ","f","o","r"," ","d","e","l","i","v","e","r","y">>
f_in_transit == <<"i","n"," ","t","r","a","n","s","i","t">>
f_ON_THE_WAY == <<"O","N"," ","T","H","E"," ","W","A","Y">>
f_Picked_Up == <<"P","i","c","k","e","d"," ","U","p">>
f_Collected == <<"C","o","l","l","e","c","t","e","d">>
f_Processing == <<"P","r","o","c","e","s","s","i","n","g">>
f_preparing == <<"p","r","e","p","a","r","i","n","g">>
f_exception == <<"e","x","c","e","p","t","i","o","n">>
f_Delayed == <<"D","e","l","a","y","e","d">>
f_Returned == <<"R","e","t","u","r","n","e","d">>
f_Label_created == <<"L","a","b","e","l"," ","c","r","e","a","t","e","d">>

Fragments == {f_Delivered, f_to_front_door, f_Package_is, f_out_for_delivery,
              f_in_transit, f_ON_THE_WAY, f_Picked_Up, f_Collected, f_Processing,
              f_preparing, f_exception, f_Delayed, f_Returned, f_Label_created}

RECURSIVE Phrases(_)
Phrases(n) ==
  IF n = 0 THEN {<<>>}
  ELSE Phrases(n - 1) \cup {p \o f : p \in Phrases(n - 1), f \in Fragments}

\* the status descriptions a carrier response may carry
RawStatuses == Phrases(MaxFrags) \cup {Null}

c_ups_ground == <<"u","p","s"," ","g","r","o","u","n","d">>
c_DHL_Express == <<"D","H","L"," ","E","x","p","r","e","s","s">>
c_Canada_Post == <<"C","a","n","a","d","a"," ","P","o","s","t">>
c_usps_priority == <<"u","s","p","s"," ","p","r","i","o","r","i","t","y">>
c_Acme == <<"A","c","m","e">>
c_Post == <<"P","o","s","t">>
n_1Z9 == <<"1","Z","9">>

Carriers == {<<>>, c_UPS, c_ups_ground, c_FedEx, c_USPS, c_usps_priority,
             c_DHL_Express, c_Canada_Post, c_Acme, c_Post}

TrackingNumbers == {<<>>, n_1Z9}

\* what the carrier request can do: reject (network, auth, timeout), resolve
\* without a data object, resolve without tracking info, resolve with tracking
\* info whose status description is any raw status or missing
ApiOutcomes ==
  {[kind |-> "throw"], [kind |-> "nodata"], [kind |-> "noinfo"]}
    \cup {[kind |-> "info", description |-> d] : d \in RawStatuses}

NoResult == [pending |-> TRUE]

(***************************************************************************)
(* State                                                                   *)
(***************************************************************************)

VARIABLES
  \* tracking client: one getTrackingInfo call
  tCarrier, tNumber, apiKeys, tpc, tAdapter, tOut, tResult, tRequests,
  \* stores and environment of the lookup endpoints
  settings, shopData, envToken,
  \* the last response of the settings, auth and analytics routes, and the
  \* rows of tracking_analytics
  apiResp, views,
  \* a storefront widget: its kind, its busy flag, the lookups it has in
  \* flight, the section it shows and the last lookup that settled
  widget, loadingState, net, shown, settled,
  \* the lookup request being served
  req, pc, calls, token, platform, result, analytics, resp,
  \* what the caller saw of the last lookup that found no matching order
  prev

trackVars == <<tCarrier, tNumber, apiKeys, tpc, tAdapter, tOut, tResult, tRequests>>

storeVars == <<settings, shopData, envToken, apiResp, views>>

widgetVars == <<widget, loadingState, net, shown, settled>>

lookupVars == <<req, pc, calls, token, platform, result, analytics, resp, prev>>

vars == <<trackVars, storeVars, widgetVars, lookupVars>>

(***************************************************************************)
(* getTrackingInfo as a process                                            *)
(***************************************************************************)

TrackIdle ==
  /\ tCarrier = <<>> /\ tNumber = <<>> /\ apiKeys = {}
  /\ tpc = "idle" /\ tAdapter = "none" /\ tOut = NoResult
  /\ tResult = NoResult /\ tRequests = 0

\* getTrackingInfo up to the carrier request: the guard on empty arguments, the
\* switch, and the adapter's check of its API key
TrackCall ==
  /\ tpc = "call"
  /\ IF ~Truthy(tCarrier) \/ ~Truthy(tNumber)
     THEN /\ tResult' = RequiredError
          /\ tpc' = "returned"
          /\ UNCHANGED tAdapter
     ELSE LET a == SelectAdapter(tCarrier) IN
          /\ tAdapter' = a
          /\ IF a = "fallback"
             THEN /\ tResult' = getFallbackTracking(tCarrier, tNumber)
                  /\ tpc' = "returned"
             ELSE IF ~hasApiKey(a, apiKeys)
             THEN /\ tResult' = getFallbackTracking(AdapterLabel(a), tNumber)
                  /\ tpc' = "returned"
             ELSE /\ tpc' = "request"
                  /\ UNCHANGED tResult
  /\ UNCHANGED <<tCarrier, tNumber, apiKeys, tOut, tRequests>>
  /\ UNCHANGED <<storeVars, widgetVars, lookupVars>>

\* the carrier request settles and the adapter, then getTrackingInfo, return
CarrierRequest ==
  /\ tpc = "request"
  /\ \E out \in ApiOutcomes :
       LET completion ==
             getTrackingInfoCatch(
               [kind |-> "return", value |-> AdapterAfterRequest(tAdapter, tNumber, out)],
               tCarrier, tNumber)
       IN /\ tOut' = out
          /\ tRequests' = tRequests + 1
          /\ IF completion.kind = "throw"
             THEN tpc' = "threw" /\ UNCHANGED tResult
             ELSE tpc' = "returned" /\ tResult' = completion.value
  /\ UNCHANGED <<tCarrier, tNumber, apiKeys, tAdapter>>
  /\ UNCHANGED <<storeVars, widgetVars, lookupVars>>


(***************************************************************************)
(* Commerce platform (external): the shop's orders and its order search    *)
(***************************************************************************)

on_1001 == <<"1","0","0","1">>
on_h1001 == <<"#","1","0","0","1">>
on_hh1001 == <<"#","#","1","0","0","1">>
on_1002 == <<"1","0","0","2">>
on_1003 == <<"1","0","0","3">>
on_1004 == <<"1","0","0","4">>
on_9999 == <<"9","9","9","9">>
on_10010 == <<"1","0","0","1","0">>
em_jane == <<"j","a","n","e","@","x",".","c","o","m">>
em_JANE == <<"J","A","N","E","@","X",".","C","O","M">>
em_Jane == <<"J","a","n","e","@","X",".","c","o","m">>
em_bob == <<"b","o","b","@","x",".","c","o","m">>
ph_1555 == <<"+","1","5","5","5">>

\* the orders of the shop, in the order the platform lists them
ShopOrders == <<
  [id |-> 13, order_number |-> on_10010, email |-> em_bob, phone |-> Null,
   fulfillments |-> << >>],
  [id |-> 11, order_number |-> on_1001, email |-> em_Jane, phone |-> Null,
   fulfillments |-> << [id |-> 21, tracking_company |-> c_UPS, tracking_number |-> n_1Z9] >>],
  [id |-> 12, order_number |-> on_1002, email |-> Null, phone |-> ph_1555,
   fulfillments |-> << [id |-> 22, tracking_company |-> Null, tracking_number |-> Null],
                       [id |-> 23, tracking_company |-> c_DHL_Express,
                        tracking_number |-> n_1Z9] >>],
  [id |-> 14, order_number |-> on_1003, email |-> Null, phone |-> Null,
   fulfillments |-> << [id |-> 24, tracking_company |-> c_FedEx, tracking_number |-> << >>],
                       [id |-> 25, tracking_company |-> c_UPS, tracking_number |-> n_1Z9] >>],
  [id |-> 15, order_number |-> on_1004, email |-> Null, phone |-> Null,
   fulfillments |-> << [id |-> 26, tracking_company |-> << >>,
                        tracking_number |-> n_1Z9] >>] >>

IsPrefix(p, s) == Len(p) <= Len(s) /\ SubSeq(s, 1, Len(p)) = p

\* GET orders?name=...&status=any: the orders whose number is the queried name
\* when the search is exact, or starts with it when the search is fuzzy
SearchOrders(name, fuzzy) ==
  SelectSeq(ShopOrders,
            LAMBDA o : IF fuzzy THEN IsPrefix(name, o.order_number)
                       ELSE o.order_number = name)

\* what the order query can do: reject, or resolve with an exact or a fuzzy match
PlatformOutcomes == {"throw", "exact", "fuzzy"}

\* what the fulfillment query can do: reject, resolve without a fulfillments
\* property, resolve with the order's fulfillments
FulfillmentOutcomes == {"throw", "missing", "list"}

(***************************************************************************)
(* ShopifyService.findOrderByNumberAndContact (src/unnamed/part_009)       *)
(***************************************************************************)

\* orderNumber.replace(/^#/, '')
cleanOrderNumber(orderNumber) ==
  IF orderNumber # <<>> /\ Head(orderNumber) = "#" THEN Tail(orderNumber)
  ELSE orderNumber

\* an order query that sends the contact along with the order number
ordersQueryNameWithContact(orderNumber, contactInfo) ==
  cleanOrderNumber(orderNumber) \o <<" ">> \o contactInfo

\* part_009 56-63: the name filter of the order query (status 'any', limit 10)
ordersQueryName(orderNumber, contactInfo) == cleanOrderNumber(orderNumber)

\* the predicate of orders.find: order.email?.toLowerCase() === contactLower
\* || order.phone === contactInfo
contactMatches(order, contactInfo) ==
  \/ (order.email # Null /\ toLowerCase(order.email) = toLowerCase(contactInfo))
  \/ order.phone = contactInfo

\* index of the first candidate orders.find accepts, 0 when there is none
findIndex(orders, contactInfo) ==
  LET hits == {i \in 1..Len(orders) : contactMatches(orders[i], contactInfo)}
  IN IF hits = {} THEN 0 ELSE CHOOSE i \in hits : \A j \in hits : i <= j

OrderNotFound == [success |-> FALSE, error |-> "Order not found"]

ContactNotFound ==
  [success |-> FALSE, error |-> "Order not found with provided contact information"]

SearchFailed == [success |-> FALSE, error |-> "Failed to search for order"]

\* the result of findOrderByNumberAndContact when no order is resolved, given
\* the outcome of the order query
findOrderFailure(outcome, orders, contactInfo) ==
  IF outcome = "throw" THEN SearchFailed
  ELSE IF Len(orders) = 0 THEN OrderNotFound
  ELSE ContactNotFound

\* getOrderFulfillments without its catch block giving the empty list: a rejected
\* query is treated like a resolved one
getOrderFulfillmentsNoCatch(order, outcome) ==
  IF outcome = "missing" THEN << >> ELSE order.fulfillments

\* getOrderFulfillments: an empty list unless the query resolves with fulfillments
getOrderFulfillments(order, outcome) ==
  IF outcome = "list" THEN order.fulfillments ELSE << >>

\* the success result of findOrderByNumberAndContact
FoundResult(order, fulfillments) ==
  [success |-> TRUE,
   order |-> [id |-> order.id, order_number |-> order.order_number,
              email |-> order.email, phone |-> order.phone,
              fulfillments |-> fulfillments]]

(***************************************************************************)
(* Database (src/server/index.js, models/Database)                         *)
(***************************************************************************)

\* the methods class Database defines
DatabaseMethods ==
  {"init", "createTables", "getSettings", "updateSettings", "recordView",
   "getAnalytics", "getTopSearchedOrders", "getShopData", "storeShopData", "close"}

\* the method the public lookup route calls to record a view
RecordMethod == "recordTrackingView"

t_default == <<"Track Your Order">>
t_custom == <<"Where is my parcel">>
logo_png == <<"data:image/png;base64">>

\* a row of merchant_settings: its two flags, its page title and its logo
SettingsRow(p, b, title, logo) ==
  [exists |-> TRUE, trackingPageEnabled |-> p, trackingBlockEnabled |-> b,
   pageTitle |-> title, logoUrl |-> logo]

\* the shop has no row in merchant_settings
NoSettingsRow ==
  [exists |-> FALSE, trackingPageEnabled |-> FALSE, trackingBlockEnabled |-> FALSE,
   pageTitle |-> Null, logoUrl |-> Null]

\* the rows getSettings can find for the shop: no row, or a row with its flags
SettingsRows ==
  {NoSettingsRow} \cup {SettingsRow(p, b, t_default, << >>) : p \in BOOLEAN, b \in BOOLEAN}

\* a gate that only asks whether the shop has a settings row
trackingDisabledRowOnly(row) == ~row.exists

\* the gate of the public lookup route
trackingDisabled(row) ==
  ~row.exists \/ (~row.trackingPageEnabled /\ ~row.trackingBlockEnabled)

tok_db == <<"t","o","k","D","B">>
tok_env == <<"t","o","k","E","n","v">>
tok_session == <<"t","o","k","S">>

\* the row getShopData resolves with: null, or the columns of shop_data
ShopDataRows == {Null, tok_db}

\* shopData?.accessToken of getShopAccessToken: getShopData resolves with the
\* database row, whose token column is access_token
rowAccessToken(access_token) == Null

\* getShopAccessToken: shopData?.accessToken || process.env.SHOPIFY_ACCESS_TOKEN
getShopAccessToken(row, env) ==
  IF Truthy(rowAccessToken(row)) THEN rowAccessToken(row) ELSE env

(***************************************************************************)
(* Lookup requests                                                         *)
(***************************************************************************)

Endpoints == {"tracking", "server", "orders"}

OrderNumberInputs == {Null, on_1001, on_h1001, on_hh1001, on_1002, on_9999}

EmailInputs == {Null, em_jane, em_JANE, em_bob}

PhoneInputs == {Null, ph_1555}

ContactInputs == EmailInputs \cup PhoneInputs

\* where the request carries the shop session: res.locals.shopify.session,
\* req.session, the x-shopify-* headers (shop and token), the shop header
\* alone, or nowhere
SessionKinds == {"locals", "reqSession", "headers", "shopOnly", "none"}

\* POST /api/tracking/lookup/:shopDomain with body {orderNumber, email, phone}
TrackingRequests ==
  {[endpoint |-> "tracking", orderNumber |-> n, email |-> e, phone |-> p,
    contactInfo |-> Null, session |-> "none"] :
     n \in OrderNumberInputs, e \in EmailInputs, p \in PhoneInputs}

\* POST /api/orders/lookup with body {order_number, contact_info}
OrdersRequests ==
  {[endpoint |-> ep, orderNumber |-> n, email |-> Null, phone |-> Null,
    contactInfo |-> c, session |-> s] :
     ep \in {"server", "orders"}, n \in OrderNumberInputs,
     c \in ContactInputs, s \in SessionKinds}

Requests == TrackingRequests \cup OrdersRequests

NoRequest ==
  [endpoint |-> "none", orderNumber |-> Null, email |-> Null, phone |-> Null,
   contactInfo |-> Null, session |-> "none"]

NoResponse == [status |-> 0]

NoPrev == [seen |-> FALSE]

\* the contact the handler hands to findOrderByNumberAndContact
ContactOf(r) ==
  IF r.endpoint = "tracking"
  THEN (IF Truthy(r.email) THEN r.email ELSE r.phone)
  ELSE r.contactInfo

\* the validation of the request body
Invalid(r) ==
  IF r.endpoint = "tracking"
  THEN ~Truthy(r.orderNumber) \/ (~Truthy(r.email) /\ ~Truthy(r.phone))
  ELSE ~Truthy(r.orderNumber) \/ ~Truthy(r.contactInfo)

ValidationBody(r) ==
  IF r.endpoint = "tracking"
  THEN [error |-> "Order number and email or phone are required"]
  ELSE [success |-> FALSE, error |-> "Order number and contact information are required"]

\* the body of the catch block of each lookup route
CatchBody(endpoint) ==
  IF endpoint = "tracking"
  THEN [error |-> "Failed to lookup tracking information",
        message |-> "Please try again later"]
  ELSE [success |-> FALSE, error |-> "Internal server error"]


(***************************************************************************)
(* Lookup endpoints as processes; one request is served at a time          *)
(***************************************************************************)

Succeeded(r) == "success" \in DOMAIN r /\ r.success

\* one call to a collaborator: the operation, the argument that identifies what
\* it asks for (the name filter of an order query, the carrier and tracking
\* number of a track call; Null when there is none) and how it settled
Call(op, arg, out) == [op |-> op, arg |-> arg, out |-> out]

\* the candidates the order query of the current request resolved with
Candidates ==
  IF platform \in {"exact", "fuzzy"}
  THEN SearchOrders(cleanOrderNumber(req.orderNumber), platform = "fuzzy")
  ELSE << >>

\* a handler that sends the response and goes on instead of returning
RespondWithoutReturn(status, body) ==
  /\ resp' = [status |-> status, body |-> body]
  /\ UNCHANGED pc

\* res.status(status).json(body), after which the handler returns
Respond(status, body) ==
  /\ resp' = [status |-> status, body |-> body]
  /\ pc' = "done"

\* what the caller saw of a finished lookup whose order query resolved without
\* a matching order
Observation ==
  [seen |-> TRUE, contact |-> ContactOf(req),
   numberKnown |-> Len(Candidates) > 0,
   status |-> resp.status, body |-> resp.body]

\* a request arrives
Receive ==
  /\ pc = "idle"
  /\ \E r \in Requests : req' = r
  /\ pc' = "start"
  /\ UNCHANGED <<calls, token, platform, result, analytics, resp, prev>>
  /\ UNCHANGED <<trackVars, storeVars, widgetVars>>

\* the response has gone out and the handler has returned: the request's
\* state is dropped, the caller keeps what it saw
Complete ==
  /\ pc = "done"
  /\ prev' = IF platform \in {"exact", "fuzzy"} /\ ~Succeeded(result)
             THEN Observation ELSE prev
  /\ req' = NoRequest
  /\ pc' = "idle"
  /\ calls' = << >>
  /\ token' = Null
  /\ platform' = "none"
  /\ result' = NoResult
  /\ analytics' = "none"
  /\ resp' = NoResponse
  /\ UNCHANGED <<trackVars, storeVars, widgetVars>>

\* routes/tracking.js 9-16: validation of the public lookup
TrackingValidate ==
  /\ pc = "start" /\ req.endpoint = "tracking"
  /\ IF Invalid(req)
     THEN Respond(400, ValidationBody(req))
     ELSE pc' = "settings" /\ UNCHANGED resp
  /\ UNCHANGED <<req, calls, token, platform, result, analytics, prev>>
  /\ UNCHANGED <<trackVars, storeVars, widgetVars>>

\* routes/tracking.js 18-23: the settings gate; a rejected query is caught by
\* the route
TrackingSettings ==
  /\ pc = "settings"
  /\ \E rejected \in BOOLEAN :
       /\ calls' = Append(calls, Call("Database.getSettings", Null,
                                      IF rejected THEN "rejected" ELSE "resolved"))
       /\ IF rejected THEN Respond(500, CatchBody("tracking"))
          ELSE IF trackingDisabled(settings)
          THEN Respond(404, [error |-> "Tracking service not available"])
          ELSE pc' = "token" /\ UNCHANGED resp
  /\ UNCHANGED <<req, token, platform, result, analytics, prev>>
  /\ UNCHANGED <<trackVars, storeVars, widgetVars>>

\* routes/tracking.js 25-30 and getShopAccessToken
TrackingToken ==
  /\ pc = "token"
  /\ calls' = Append(calls, Call("Database.getShopData", Null, "resolved"))
  /\ token' = getShopAccessToken(shopData, envToken)
  /\ IF ~Truthy(token')
     THEN Respond(401, [error |-> "Shop not authorized"])
     ELSE pc' = "orders" /\ UNCHANGED resp
  /\ UNCHANGED <<req, platform, result, analytics, prev>>
  /\ UNCHANGED <<trackVars, storeVars, widgetVars>>

\* part_008 getSessionFromRequest: the access token it resolves with
ServerSessionToken(session, row) ==
  IF session \in {"locals", "reqSession", "headers"} THEN tok_session
  ELSE IF session = "shopOnly" /\ Truthy(row) THEN row
  ELSE Null

\* part_008 getSessionFromRequest: the database calls it makes
ServerSessionCalls(session) ==
  IF session = "shopOnly"
  THEN <<Call("Database.init", Null, "resolved"),
         Call("Database.getShopData", Null, "resolved")>>
  ELSE << >>

\* part_008 255-271: app.post('/api/orders/lookup') up to the order query
ServerStart ==
  /\ pc = "start" /\ req.endpoint = "server"
  /\ calls' = calls \o ServerSessionCalls(req.session)
  /\ token' = ServerSessionToken(req.session, shopData)
  /\ IF Invalid(req)
     THEN Respond(400, ValidationBody(req))
     ELSE IF ~Truthy(token')
     THEN Respond(401, [success |-> FALSE, error |-> "No valid Shopify session found"])
     ELSE pc' = "orders" /\ UNCHANGED resp
  /\ UNCHANGED <<req, platform, result, analytics, prev>>
  /\ UNCHANGED <<trackVars, storeVars, widgetVars>>

\* routes/orders.js 42-51: router.post('/lookup') up to the order query; its
\* getSessionFromRequest(req) names res, which that module never binds, once
\* neither req.session nor the headers carry the session
OrdersStart ==
  /\ pc = "start" /\ req.endpoint = "orders"
  /\ IF Invalid(req)
     THEN Respond(400, ValidationBody(req)) /\ UNCHANGED token
     ELSE IF req.session \in {"reqSession", "headers"}
     THEN pc' = "orders" /\ token' = tok_session /\ UNCHANGED resp
     ELSE Respond(500, CatchBody("orders")) /\ UNCHANGED token
  /\ UNCHANGED <<req, calls, platform, result, analytics, prev>>
  /\ UNCHANGED <<trackVars, storeVars, widgetVars>>

\* part_009 50-81: the order query and the contact match
QueryOrders ==
  /\ pc = "orders"
  /\ \E outcome \in PlatformOutcomes :
       LET name == ordersQueryName(req.orderNumber, ContactOf(req))
           orders == IF outcome = "throw" THEN << >>
                     ELSE SearchOrders(name, outcome = "fuzzy")
           i == findIndex(orders, ContactOf(req))
       IN /\ calls' = Append(calls, Call("orders.get", name, outcome))
          /\ platform' = outcome
          /\ IF i = 0
             THEN /\ result' = findOrderFailure(outcome, orders, ContactOf(req))
                  /\ pc' = "respond"
             ELSE /\ result' = [pending |-> TRUE, matchingOrder |-> orders[i]]
                  /\ pc' = "fulfillments"
  /\ UNCHANGED <<req, token, analytics, resp, prev>>
  /\ UNCHANGED <<trackVars, storeVars, widgetVars>>

\* part_009 83-110 and getOrderFulfillments
QueryFulfillments ==
  /\ pc = "fulfillments"
  /\ \E outcome \in FulfillmentOutcomes :
       /\ calls' = Append(calls, Call("fulfillments.get", Null, outcome))
       /\ result' = FoundResult(result.matchingOrder,
                                getOrderFulfillments(result.matchingOrder, outcome))
  /\ pc' = "respond"
  /\ UNCHANGED <<req, token, platform, analytics, resp, prev>>
  /\ UNCHANGED <<trackVars, storeVars, widgetVars>>

\* routes/tracking.js 41-55: the analytics call and the response.  Calling a
\* method the Database object does not have throws a TypeError, which the
\* route's catch turns into the 500 response, as it does a rejected write
TrackingRespond ==
  /\ pc = "respond" /\ req.endpoint = "tracking"
  /\ IF ~Succeeded(result)
     THEN Respond(404, result) /\ UNCHANGED <<calls, analytics>>
     ELSE IF RecordMethod \notin DatabaseMethods
     THEN /\ analytics' = "threw"
          /\ Respond(500, CatchBody("tracking"))
          /\ UNCHANGED calls
     ELSE \E written \in BOOLEAN :
            /\ calls' = Append(calls, Call("Database." \o RecordMethod, Null,
                                           IF written THEN "resolved" ELSE "rejected"))
            /\ IF written
               THEN analytics' = "ok" /\ Respond(200, result)
               ELSE analytics' = "threw" /\ Respond(500, CatchBody("tracking"))
  /\ UNCHANGED <<req, token, platform, result, prev>>
  /\ UNCHANGED <<trackVars, storeVars, widgetVars>>

\* part_008 280-284 and routes/orders.js 59-63
OrdersRespond ==
  /\ pc = "respond" /\ req.endpoint \in {"server", "orders"}
  /\ IF Succeeded(result) THEN Respond(200, result) ELSE Respond(404, result)
  /\ UNCHANGED <<req, calls, token, platform, result, analytics, prev>>
  /\ UNCHANGED <<trackVars, storeVars, widgetVars>>

(***************************************************************************)
(* simple-server.js: GET /api/tracking/:orderNumber, and the enhanced      *)
(* tracking endpoint with its caller, the TrackingDetails component        *)
(***************************************************************************)

\* where a request to simple-server carries the shop session: req.session,
\* the x-shopify-* headers or query parameters, req.session.shopify, nowhere
SimpleSessionKinds == {"reqSession", "headers", "appBridge", "none"}

\* simple-server getSessionFromRequest: the access token it returns
SimpleSessionToken(session) == IF session = "none" THEN Null ELSE tok_session

\* GET /api/tracking/:orderNumber; the route parameter is never empty
SimpleRequests ==
  {[endpoint |-> "simple", orderNumber |-> n, email |-> Null, phone |-> Null,
    contactInfo |-> Null, session |-> s] :
     n \in {on_1001, on_h1001, on_1002}, s \in SimpleSessionKinds}

\* the order prop of TrackingDetails
DetailsOrders ==
  {[endpoint |-> "details", trackingCompany |-> c, trackingNumber |-> n] :
     c \in {Null, << >>, c_UPS, c_DHL_Express}, n \in {Null, << >>, n_1Z9}}

\* JavaScript null where an object is expected
nullObject == [null |-> TRUE]

\* what getOrders can do: reject (caught: success false), resolve without
\* orders, resolve with the first `limit: 1` orders of the shop's listing
ListOutcomes == {"throw", "empty", "listed"}

\* the test that guards the enhanced-tracking call, on fulfillments[0] only
\* when the tracking number is not looked at
enhanceableCarrierOnly(fulfillments) ==
  Len(fulfillments) > 0 /\ Truthy(fulfillments[1].tracking_company)

\* simple-server.js 470: fulfillments.length > 0 && fulfillments[0].tracking_number
\* && fulfillments[0].tracking_company
enhanceable(fulfillments) ==
  /\ Len(fulfillments) > 0
  /\ Truthy(fulfillments[1].tracking_number)
  /\ Truthy(fulfillments[1].tracking_company)

\* the 200 body of GET /api/tracking/:orderNumber
SimpleBody(order, fulfillments, enhancedTracking) ==
  [success |-> TRUE,
   orderNumber |-> order.order_number,
   trackingNumber |-> IF Len(fulfillments) > 0 THEN fulfillments[1].tracking_number ELSE Null,
   trackingCompany |-> IF Len(fulfillments) > 0 THEN fulfillments[1].tracking_company ELSE Null,
   fulfillments |-> fulfillments,
   order |-> [id |-> order.id],
   enhancedTracking |-> enhancedTracking]

\* a request for GET /api/tracking/:orderNumber arrives
ReceiveSimple ==
  /\ pc = "idle"
  /\ \E r \in SimpleRequests : req' = r
  /\ pc' = "start"
  /\ UNCHANGED <<calls, token, platform, result, analytics, resp, prev>>
  /\ UNCHANGED <<trackVars, storeVars, widgetVars>>

\* simple-server.js 440-448: the session check
SimpleStart ==
  /\ pc = "start" /\ req.endpoint = "simple"
  /\ token' = SimpleSessionToken(req.session)
  /\ IF ~Truthy(token')
     THEN Respond(400, [success |-> FALSE, error |-> "No valid Shopify session found"])
     ELSE pc' = "orders" /\ UNCHANGED resp
  /\ UNCHANGED <<req, calls, platform, result, analytics, prev>>
  /\ UNCHANGED <<trackVars, storeVars, widgetVars>>

\* simple-server.js 450-463 and ShopifyService.getOrders: options.name is not
\* copied into the query, so the platform lists the shop's orders, one of them
\* first, and the handler takes orders[0]
SimpleOrders ==
  /\ pc = "orders" /\ req.endpoint = "simple"
  /\ \E outcome \in ListOutcomes :
       /\ calls' = Append(calls, Call("orders.get", Null, outcome))
       /\ platform' = outcome
       /\ IF outcome = "listed"
          THEN /\ \E first \in 1..Len(ShopOrders) :
                    result' = [pending |-> TRUE, matchingOrder |-> ShopOrders[first]]
               /\ pc' = "fulfillments"
               /\ UNCHANGED resp
          ELSE /\ Respond(404, OrderNotFound)
               /\ UNCHANGED result
  /\ UNCHANGED <<req, token, analytics, prev>>
  /\ UNCHANGED <<trackVars, storeVars, widgetVars>>

\* simple-server.js 465-475: the fulfillment query and the decision to call
\* getTrackingInfo with the first fulfillment's carrier and tracking number
SimpleFulfillments ==
  /\ pc = "fulfillments" /\ req.endpoint = "simple"
  /\ \E outcome \in FulfillmentOutcomes :
       LET fulfillments == getOrderFulfillments(result.matchingOrder, outcome) IN
       /\ result' = [pending |-> TRUE, matchingOrder |-> result.matchingOrder,
                     fulfillments |-> fulfillments]
       /\ IF enhanceable(fulfillments)
          THEN /\ calls' = calls \o
                    <<Call("fulfillments.get", Null, outcome),
                      Call("getTrackingInfo",
                           <<fulfillments[1].tracking_company,
                             fulfillments[1].tracking_number>>, "called")>>
               /\ tCarrier' = fulfillments[1].tracking_company
               /\ tNumber' = fulfillments[1].tracking_number
               /\ tpc' = "call"
               /\ pc' = "tracking"
          ELSE /\ calls' = Append(calls, Call("fulfillments.get", Null, outcome))
               /\ pc' = "respond"
               /\ UNCHANGED <<tCarrier, tNumber, tpc>>
  /\ UNCHANGED <<req, token, platform, analytics, resp, prev>>
  /\ UNCHANGED <<apiKeys, tAdapter, tOut, tResult, tRequests, storeVars, widgetVars>>

\* simple-server.js 476-499: a throw of getTrackingInfo is caught and leaves
\* enhancedTracking null; the response
SimpleRespond ==
  /\ req.endpoint = "simple"
  /\ \/ pc = "respond"
     \/ pc = "tracking" /\ tpc \in {"returned", "threw"}
  /\ Respond(200, SimpleBody(result.matchingOrder, result.fulfillments,
                             IF pc = "tracking" /\ tpc = "returned"
                             THEN tResult ELSE nullObject))
  /\ UNCHANGED <<req, calls, token, platform, result, analytics, prev>>
  /\ UNCHANGED <<trackVars, storeVars, widgetVars>>

\* TrackingDetails.js 30-39 and 54-57: the component asks for enhanced
\* tracking only for an order with tracking number and tracking company
fetchEnhancedTracking ==
  /\ pc = "idle"
  /\ \E order \in DetailsOrders :
       /\ req' = order
       /\ IF ~Truthy(order.trackingNumber) \/ ~Truthy(order.trackingCompany)
          THEN pc' = "skipped"
          ELSE pc' = "enhanced"
  /\ UNCHANGED <<calls, token, platform, result, analytics, resp, prev>>
  /\ UNCHANGED <<trackVars, storeVars, widgetVars>>

\* simple-server.js 265-278: GET /api/tracking/enhanced/:carrier/:trackingNumber
\* with the path the component built (apiEndpoints.tracking.enhanced)
EnhancedEndpoint ==
  /\ pc = "enhanced"
  /\ LET carrier == decodeURIComponent(encodeURIComponent(req.trackingCompany))
         trackingNumber == decodeURIComponent(encodeURIComponent(req.trackingNumber))
     IN IF ~Truthy(carrier) \/ ~Truthy(trackingNumber)
        THEN /\ Respond(400, RequiredError)
             /\ UNCHANGED <<calls, tCarrier, tNumber, tpc>>
        ELSE /\ calls' = Append(calls, Call("getTrackingInfo",
                                            <<carrier, trackingNumber>>, "called"))
             /\ tCarrier' = carrier
             /\ tNumber' = trackingNumber
             /\ tpc' = "call"
             /\ pc' = "tracking"
             /\ UNCHANGED resp
  /\ UNCHANGED <<req, token, platform, result, analytics, prev>>
  /\ UNCHANGED <<apiKeys, tAdapter, tOut, tResult, tRequests, storeVars, widgetVars>>

\* simple-server.js 280-292
EnhancedRespond ==
  /\ pc = "tracking" /\ req.endpoint = "details"
  /\ tpc \in {"returned", "threw"}
  /\ IF tpc = "threw"
     THEN Respond(500, [success |-> FALSE,
                        error |-> "Failed to fetch enhanced tracking information"])
     ELSE Respond(200, [success |-> tResult.success, tracking |-> tResult])
  /\ UNCHANGED <<req, calls, token, platform, result, analytics, prev>>
  /\ UNCHANGED <<trackVars, storeVars, widgetVars>>


(***************************************************************************)
(* routes/settings.js, the OAuth callback and POST /analytics/track        *)
(***************************************************************************)

ApiIdle == apiResp = NoResponse /\ views = {}

\* a request without a body
NoBody == [empty |-> TRUE]

\* a response of these routes, with the route that sent it and the request
ApiResponse(route, request, status, body) ==
  [route |-> route, request |-> request, status |-> status, body |-> body]

\* routes/settings.js 18-39: the settings of a shop that has no row
defaultSettings ==
  [trackingPageEnabled |-> TRUE, trackingBlockEnabled |-> FALSE,
   pageTitle |-> t_default, logoUrl |-> << >>]

\* Database.getSettings: the camelCase object of the row, or null
getSettings(row) ==
  IF row.exists
  THEN [trackingPageEnabled |-> row.trackingPageEnabled,
        trackingBlockEnabled |-> row.trackingBlockEnabled,
        pageTitle |-> row.pageTitle, logoUrl |-> row.logoUrl]
  ELSE nullObject

\* settingsData.flag ? 1 : 0
flagParam(settingsData, field) ==
  field \in DOMAIN settingsData /\ settingsData[field]

\* settingsData.text || fallback
textParam(settingsData, field, fallback) ==
  IF field \in DOMAIN settingsData /\ Truthy(settingsData[field])
  THEN settingsData[field] ELSE fallback

\* Database.updateSettings: INSERT OR REPLACE of the whole row, every column
\* taken from settingsData
updateSettings(settingsData) ==
  SettingsRow(flagParam(settingsData, "trackingPageEnabled"),
              flagParam(settingsData, "trackingBlockEnabled"),
              textParam(settingsData, "pageTitle", t_default),
              textParam(settingsData, "logoUrl", << >>))

Unauthorized == [error |-> "Unauthorized"]

\* the bodies the admin sends to PUT settings
SettingsBodies ==
  {[trackingPageEnabled |-> p, trackingBlockEnabled |-> b,
    pageTitle |-> t, logoUrl |-> l] :
     p \in BOOLEAN, b \in BOOLEAN, t \in {<< >>, t_custom}, l \in {<< >>, logo_png}}

\* GET settings
GetSettings ==
  /\ \E session \in BOOLEAN :
       IF ~session
       THEN apiResp' = ApiResponse("settings.get", NoBody, 401, Unauthorized)
       ELSE \E rejected \in BOOLEAN :
              apiResp' =
                IF rejected
                THEN ApiResponse("settings.get", NoBody, 500,
                                 [error |-> "Failed to fetch settings"])
                ELSE ApiResponse("settings.get", NoBody, 200,
                       [settings |-> IF getSettings(settings) = nullObject
                                     THEN defaultSettings ELSE getSettings(settings)])
  /\ UNCHANGED <<settings, shopData, envToken, views>>
  /\ UNCHANGED <<trackVars, widgetVars, lookupVars>>

\* PUT settings
PutSettings ==
  /\ \E session \in BOOLEAN :
       IF ~session
       THEN /\ apiResp' = ApiResponse("settings.put", NoBody, 401, Unauthorized)
            /\ UNCHANGED settings
       ELSE \E body \in SettingsBodies :
              IF ~Truthy(body.pageTitle)
              THEN /\ apiResp' = ApiResponse("settings.put", body, 400,
                                             [error |-> "Page title is required"])
                   /\ UNCHANGED settings
              ELSE \E rejected \in BOOLEAN :
                     IF rejected
                     THEN /\ apiResp' = ApiResponse("settings.put", body, 500,
                                                    [error |-> "Failed to update settings"])
                          /\ UNCHANGED settings
                     ELSE /\ settings' = updateSettings(body)
                          /\ apiResp' = ApiResponse("settings.put", body, 200,
                                                    [settings |-> body])
  /\ UNCHANGED <<shopData, envToken, views>>
  /\ UNCHANGED <<trackVars, widgetVars, lookupVars>>

\* POST settings/reset
ResetSettings ==
  /\ \E session \in BOOLEAN :
       IF ~session
       THEN /\ apiResp' = ApiResponse("settings.reset", NoBody, 401, Unauthorized)
            /\ UNCHANGED settings
       ELSE \E rejected \in BOOLEAN :
              IF rejected
              THEN /\ apiResp' = ApiResponse("settings.reset", NoBody, 500,
                                             [error |-> "Failed to reset settings"])
                   /\ UNCHANGED settings
              ELSE /\ settings' = updateSettings(defaultSettings)
                   /\ apiResp' = ApiResponse("settings.reset", NoBody, 200,
                                             [settings |-> defaultSettings])
  /\ UNCHANGED <<shopData, envToken, views>>
  /\ UNCHANGED <<trackVars, widgetVars, lookupVars>>

\* POST settings/upload-logo
UploadLogo ==
  /\ \E session \in BOOLEAN :
       IF ~session
       THEN /\ apiResp' = ApiResponse("settings.upload-logo", NoBody, 401, Unauthorized)
            /\ UNCHANGED settings
       ELSE \E logoData \in {Null, logo_png} :
              IF ~Truthy(logoData)
              THEN /\ apiResp' = ApiResponse("settings.upload-logo",
                                             [logoData |-> logoData], 400,
                                             [error |-> "Logo data is required"])
                   /\ UNCHANGED settings
              ELSE \E rejected \in BOOLEAN :
                     IF rejected
                     THEN /\ apiResp' = ApiResponse("settings.upload-logo",
                                                    [logoData |-> logoData], 500,
                                                    [error |-> "Failed to upload logo"])
                          /\ UNCHANGED settings
                     ELSE /\ settings' = updateSettings([logoUrl |-> logoData])
                          /\ apiResp' = ApiResponse("settings.upload-logo",
                                                    [logoData |-> logoData], 200,
                                                    [logoUrl |-> logoData])
  /\ UNCHANGED <<shopData, envToken, views>>
  /\ UNCHANGED <<trackVars, widgetVars, lookupVars>>

\* how the OAuth callback can go: the token exchange throws, the write of the
\* shop's row fails (caught and logged), or the row is written
CallbackOutcomes == {"exchangeFailed", "dbError", "stored"}

\* GET /auth/callback: storeShopData(shop, tokenData.access_token) writes the
\* access_token column of the shop's row
AuthCallback ==
  /\ \E hasCode \in BOOLEAN, outcome \in CallbackOutcomes :
       IF ~hasCode
       THEN /\ apiResp' = ApiResponse("auth.callback", NoBody, 400,
                                      [text |-> "Missing required parameters"])
            /\ UNCHANGED shopData
       ELSE IF outcome = "exchangeFailed"
       THEN /\ apiResp' = ApiResponse("auth.callback", NoBody, 500,
                                      [text |-> "OAuth authentication failed"])
            /\ UNCHANGED shopData
       ELSE /\ shopData' = IF outcome = "stored" THEN tok_db ELSE shopData
            /\ apiResp' = ApiResponse("auth.callback", NoBody, 302,
                                      [location |-> "installed=true"])
  /\ UNCHANGED <<settings, envToken, views>>
  /\ UNCHANGED <<trackVars, widgetVars, lookupVars>>

sd_suffix == <<".myshopify.com">>
sd_shop == <<"shop1">> \o sd_suffix

\* the Referer header: absent, a page of the shop's myshopify.com domain, a
\* page of the shop's own domain
Referers ==
  {Null,
   <<"https://", "shop1", ".myshopify.com", "/pages/track">>,
   <<"https://", "shop.example.com", "/pages/track">>}

\* req.get(name) || ''
headerOrEmpty(value) == IF Truthy(value) THEN value ELSE << >>

\* referrer.match(/https?:\/\/([^.]+)\.myshopify\.com/)?.[1]: the captured
\* shop name, or undefined
refererMatch(referrer) ==
  LET hits == {i \in 1..(Len(referrer) - 2) :
                 /\ referrer[i] \in {"https://", "http://"}
                 /\ referrer[i + 2] = ".myshopify.com"}
  IN IF hits = {} THEN Null
     ELSE <<referrer[(CHOOSE i \in hits : \A j \in hits : i <= j) + 1]>>

\* the string a value concatenates as: undefined gives 'undefined'
concatString(value) == IF value = Null THEN <<"undefined">> ELSE value

\* routes/tracking.js 173-175: (match?.[1] + '.myshopify.com') || header || ''
trackShopDomain(referer, header) ==
  LET fromReferer == concatString(refererMatch(headerOrEmpty(referer))) \o sd_suffix
  IN IF Truthy(fromReferer) THEN fromReferer
     ELSE IF Truthy(header) THEN header ELSE << >>

AnalyticsEvents == {"order_lookup_success", "order_lookup_failed"}

\* the requests to POST /analytics/track
TrackRequests ==
  {[referer |-> r, header |-> h, event |-> e, order_number |-> n] :
     r \in Referers, h \in {Null, sd_shop}, e \in AnalyticsEvents,
     n \in {Null, on_1001, on_9999}}

\* POST /analytics/track; the rows of tracking_analytics are kept as the set
\* of their (shop, order number) pairs
AnalyticsTrack ==
  /\ \E request \in TrackRequests, rejected \in BOOLEAN :
       LET shopDomain == trackShopDomain(request.referer, request.header) IN
         IF ~Truthy(shopDomain)
         THEN /\ apiResp' = ApiResponse("analytics.track", request, 400,
                                        [error |-> "Shop domain not found"])
              /\ UNCHANGED views
         ELSE IF request.event = "order_lookup_success" /\ Truthy(request.order_number)
         THEN IF rejected
              THEN /\ apiResp' = ApiResponse("analytics.track", request, 500,
                                             [error |-> "Failed to record analytics"])
                   /\ UNCHANGED views
              ELSE /\ views' = views \cup {[shopDomain |-> shopDomain,
                                            orderNumber |-> request.order_number]}
                   /\ apiResp' = ApiResponse("analytics.track", request, 200,
                                             [message |-> "Analytics recorded"])
         ELSE /\ apiResp' = ApiResponse("analytics.track", request, 200,
                                        [message |-> "Analytics recorded"])
              /\ UNCHANGED views
  /\ UNCHANGED <<settings, shopData, envToken>>
  /\ UNCHANGED <<trackVars, widgetVars, lookupVars>>

\* the public lookups served next to the admin routes
PublicRequests ==
  {r \in TrackingRequests :
     /\ r.orderNumber \in {Null, on_1001}
     /\ r.email \in {Null, em_bob}
     /\ r.phone = Null}

\* a public lookup arrives
ReceivePublic ==
  /\ pc = "idle"
  /\ \E r \in PublicRequests : req' = r
  /\ pc' = "start"
  /\ UNCHANGED <<calls, token, platform, result, analytics, resp, prev>>
  /\ UNCHANGED <<trackVars, storeVars, widgetVars>>

(***************************************************************************)
(* The storefront widgets: OrderTracker (part_002) and TrackingBlock       *)
(***************************************************************************)

MaxOutstanding == 2

NoSettled == [none |-> TRUE]

WidgetIdle ==
  /\ widget = "none" /\ loadingState = FALSE /\ net = << >>
  /\ shown = "none" /\ settled = NoSettled

Widgets == {"OrderTracker", "TrackingBlock"}

RECURSIVE trimStart(_)
\* String.prototype.trimStart on a sequence of characters
trimStart(s) ==
  IF s # << >> /\ Head(s) = " " THEN trimStart(Tail(s)) ELSE s

RECURSIVE trimEnd(_)
trimEnd(s) ==
  IF s # << >> /\ s[Len(s)] = " " THEN trimEnd(SubSeq(s, 1, Len(s) - 1)) ELSE s

\* String.prototype.trim
trim(s) == trimEnd(trimStart(s))

on_sp1001 == <<" ">> \o on_1001

\* what the customer can type into the widget's fields
FormOrderNumbers == {<< >>, <<" ">>, on_sp1001, on_9999}
FormEmails == {<< >>, em_jane}
FormPhones == {<< >>, ph_1555}

\* the field of a JSON body as the endpoint destructures it: undefined when
\* the body has no such field
bodyField(body, field) == IF field \in DOMAIN body THEN body[field] ELSE Null

\* routes/tracking.js 7: const { orderNumber, email, phone } = req.body
lookupRequestOf(body) ==
  [endpoint |-> "tracking", orderNumber |-> bodyField(body, "orderNumber"),
   email |-> bodyField(body, "email"), phone |-> bodyField(body, "phone"),
   contactInfo |-> Null, session |-> "none"]

\* what the lookup route answers once the body has passed its validation
LookupAnswers ==
  {[kind |-> "response", status |-> 200,
    body |-> [success |-> TRUE, order |-> [fulfillments |-> n]]] : n \in {0, 1}}
    \cup {[kind |-> "response", status |-> 404,
           body |-> [error |-> "Tracking service not available"]],
          [kind |-> "response", status |-> 401,
           body |-> [error |-> "Shop not authorized"]],
          [kind |-> "response", status |-> 404, body |-> OrderNotFound],
          [kind |-> "response", status |-> 500, body |-> CatchBody("tracking")]}

\* how the fetch of a lookup settles: it rejects, or it resolves with the
\* route's answer, which is the 400 of routes/tracking.js 9-16 when the
\* fields the route reads are missing
fetchOutcomes(body) ==
  {[kind |-> "rejected"]} \cup
    (IF Invalid(lookupRequestOf(body))
     THEN {[kind |-> "response", status |-> 400,
            body |-> ValidationBody(lookupRequestOf(body))]}
     ELSE LookupAnswers)

\* response.ok
responseOk(r) == r.status >= 200 /\ r.status <= 299

\* net without its i-th lookup
withoutLookup(i) == SubSeq(net, 1, i - 1) \o SubSeq(net, i + 1, Len(net))

\* a submit that finds the widget loading returns at once
submitIgnoredNever(loading) == FALSE

\* part_002 51: if (this.loadingState) return;
submitIgnored(loading) == loading

\* OrderTracker.handleSubmit up to its await, with lookupOrder's fetch
OrderTrackerSubmit ==
  /\ widget = "OrderTracker"
  /\ Len(net) < MaxOutstanding
  /\ \E o \in FormOrderNumbers, e \in FormEmails, p \in FormPhones :
       LET orderNumber == trim(o)
           contactInfo == IF Truthy(trim(e)) THEN trim(e) ELSE trim(p)
       IN IF submitIgnored(loadingState)
          THEN UNCHANGED <<loadingState, net, shown>>
          ELSE IF ~Truthy(orderNumber)
          THEN shown' = "error: order number" /\ UNCHANGED <<loadingState, net>>
          ELSE IF ~Truthy(contactInfo)
          THEN shown' = "error: contact" /\ UNCHANGED <<loadingState, net>>
          ELSE /\ loadingState' = TRUE
               /\ net' = Append(net, [order_number |-> orderNumber,
                                      contact_info |-> contactInfo])
               /\ UNCHANGED shown
  /\ UNCHANGED <<widget, settled>>
  /\ UNCHANGED <<trackVars, storeVars, lookupVars>>

\* OrderTracker.handleSubmit from its await on: lookupOrder throws on a
\* rejected fetch or a response that is not ok; finally resets loadingState
OrderTrackerSettle ==
  /\ widget = "OrderTracker"
  /\ \E i \in 1..Len(net) : \E r \in fetchOutcomes(net[i]) :
       /\ shown' = IF r.kind = "rejected" \/ ~responseOk(r) THEN "error: unable"
                   ELSE IF Succeeded(r.body) THEN "success"
                   ELSE "error: not found"
       /\ loadingState' = FALSE
       /\ net' = withoutLookup(i)
       /\ settled' = [body |-> net[i], response |-> r]
  /\ UNCHANGED widget
  /\ UNCHANGED <<trackVars, storeVars, lookupVars>>

\* TrackingBlock.handleSubmit up to its await; loadingState holds
\* submitBtn.disabled, which showLoading sets
TrackingBlockSubmit ==
  /\ widget = "TrackingBlock"
  /\ Len(net) < MaxOutstanding
  /\ \E o \in FormOrderNumbers, c \in FormEmails \cup FormPhones :
       LET orderNumber == trim(o)
           contactInfo == trim(c)
       IN IF ~Truthy(orderNumber) \/ ~Truthy(contactInfo)
          THEN UNCHANGED <<loadingState, net, shown>>
          ELSE /\ loadingState' = TRUE
               /\ shown' = "none"
               /\ net' = Append(net,
                    [orderNumber |-> orderNumber,
                     email |-> IF includes(contactInfo, <<"@">>) THEN contactInfo ELSE Null,
                     phone |-> IF ~includes(contactInfo, <<"@">>) THEN contactInfo ELSE Null])
  /\ UNCHANGED <<widget, settled>>
  /\ UNCHANGED <<trackVars, storeVars, lookupVars>>

\* TrackingBlock.handleSubmit from its await on; finally hideLoading
TrackingBlockSettle ==
  /\ widget = "TrackingBlock"
  /\ \E i \in 1..Len(net) : \E r \in fetchOutcomes(net[i]) :
       /\ shown' = IF r.kind = "rejected" THEN "error"
                   ELSE IF Succeeded(r.body) /\ "order" \in DOMAIN r.body
                   THEN (IF r.body.order.fulfillments > 0
                         THEN "success" ELSE "not dispatched")
                   ELSE "error"
       /\ loadingState' = FALSE
       /\ net' = withoutLookup(i)
       /\ settled' = [body |-> net[i], response |-> r]
  /\ UNCHANGED widget
  /\ UNCHANGED <<trackVars, storeVars, lookupVars>>

LookupIdle ==
  /\ req = NoRequest /\ pc = "idle" /\ calls = << >> /\ token = Null
  /\ platform = "none" /\ result = NoResult /\ analytics = "none"
  /\ resp = NoResponse /\ prev = NoPrev

Init ==
  /\ TrackIdle
  /\ settings \in SettingsRows
  /\ shopData \in ShopDataRows
  /\ envToken \in {Null, tok_env}
  /\ ApiIdle
  /\ WidgetIdle
  /\ LookupIdle

Next ==
  \/ Receive
  \/ TrackingValidate
  \/ TrackingSettings
  \/ TrackingToken
  \/ ServerStart
  \/ OrdersStart
  \/ QueryOrders
  \/ QueryFulfillments
  \/ TrackingRespond
  \/ OrdersRespond
  \/ Complete

Spec == Init /\ [][Next]_vars

\* the tracking client on its own: every carrier, tracking number and
\* configuration of API keys
InitTrack ==
  /\ tCarrier \in Carriers
  /\ tNumber \in TrackingNumbers
  /\ apiKeys \in SUBSET AdapterNames
  /\ tpc = "call" /\ tAdapter = "none" /\ tOut = NoResult
  /\ tResult = NoResult /\ tRequests = 0
  /\ settings = NoSettingsRow
  /\ shopData = Null
  /\ envToken = Null
  /\ ApiIdle
  /\ WidgetIdle
  /\ LookupIdle

NextTrack ==
  \/ TrackCall
  \/ CarrierRequest

SpecTrack == InitTrack /\ [][NextTrack]_vars

\* the admin tracking endpoint and the enhanced-tracking endpoint of
\* simple-server.js, serving one request, under every configuration of API keys
InitAggregate ==
  /\ tCarrier = << >> /\ tNumber = << >>
  /\ apiKeys \in SUBSET AdapterNames
  /\ tpc = "idle" /\ tAdapter = "none" /\ tOut = NoResult
  /\ tResult = NoResult /\ tRequests = 0
  /\ settings = NoSettingsRow
  /\ shopData = Null
  /\ envToken = Null
  /\ ApiIdle
  /\ WidgetIdle
  /\ LookupIdle

NextAggregate ==
  \/ ReceiveSimple
  \/ SimpleStart
  \/ SimpleOrders
  \/ SimpleFulfillments
  \/ SimpleRespond
  \/ fetchEnhancedTracking
  \/ EnhancedEndpoint
  \/ EnhancedRespond
  \/ TrackCall
  \/ CarrierRequest

SpecAggregate == InitAggregate /\ [][NextAggregate]_vars

\* the settings, auth and analytics routes next to the public lookup route,
\* for a shop that starts without rows
InitStore ==
  /\ TrackIdle
  /\ settings = NoSettingsRow
  /\ shopData = Null
  /\ envToken \in {Null, tok_env}
  /\ ApiIdle
  /\ WidgetIdle
  /\ LookupIdle

NextStore ==
  \/ GetSettings
  \/ PutSettings
  \/ ResetSettings
  \/ UploadLogo
  \/ AuthCallback
  \/ ReceivePublic
  \/ TrackingValidate
  \/ TrackingSettings
  \/ TrackingToken
  \/ QueryOrders
  \/ QueryFulfillments
  \/ TrackingRespond
  \/ Complete

SpecStore == InitStore /\ [][NextStore]_vars

\* POST /analytics/track on its own
InitAnalytics ==
  /\ TrackIdle
  /\ settings = NoSettingsRow
  /\ shopData = Null
  /\ envToken = Null
  /\ ApiIdle
  /\ WidgetIdle
  /\ LookupIdle

NextAnalytics == AnalyticsTrack

SpecAnalytics == InitAnalytics /\ [][NextAnalytics]_vars

\* one storefront widget of either kind and the fetches of its lookups
InitWidget ==
  /\ TrackIdle
  /\ settings = NoSettingsRow
  /\ shopData = Null
  /\ envToken = Null
  /\ ApiIdle
  /\ widget \in Widgets
  /\ loadingState = FALSE /\ net = << >> /\ shown = "none" /\ settled = NoSettled
  /\ LookupIdle

NextWidget ==
  \/ OrderTrackerSubmit
  \/ OrderTrackerSettle
  \/ TrackingBlockSubmit
  \/ TrackingBlockSettle

SpecWidget == InitWidget /\ [][NextWidget]_vars


(***************************************************************************)
(* Properties                                                              *)
(***************************************************************************)

\* two strings that differ at most in the case of their letters
SameIgnoringCase(a, b) ==
  Len(a) = Len(b) /\ \A i \in 1..Len(a) : LowerChar(a[i]) = LowerChar(b[i])

\* the contact authenticates the order: it is the stored e-mail up to case, or
\* the stored phone verbatim
ContactAuthenticates(order, contact) ==
  \/ (order.email # Null /\ SameIgnoringCase(order.email, contact))
  \/ (order.phone # Null /\ order.phone = contact)

\* the lookup has answered and its order query resolved
Answered == pc = "done" /\ platform \in {"exact", "fuzzy"}

\* the candidates that carry the requested number and the supplied contact
FullMatches ==
  {i \in 1..Len(Candidates) :
     /\ Candidates[i].order_number = cleanOrderNumber(req.orderNumber)
     /\ ContactAuthenticates(Candidates[i], ContactOf(req))}

\* C1: a validated lookup on a shop with tracking enabled, for which exactly
\* one order returned by the platform matches both the order number and the
\* contact, answers Found (HTTP 200, success: true) with that order's id.
C1_UniqueMatchIsFound ==
  (Answered /\ req.endpoint = "tracking" /\ Cardinality(FullMatches) = 1)
    => /\ resp.status = 200
       /\ Succeeded(resp.body)
       /\ \A i \in FullMatches : resp.body.order.id = Candidates[i].id

\* C2: when an order with the requested number exists and the supplied contact
\* is neither its e-mail (up to case) nor its phone, the lookup answers
\* NotFound and never Found.
C2_MismatchIsNotFound ==
  (Answered /\ \E i \in 1..Len(Candidates) :
                 /\ Candidates[i].order_number = cleanOrderNumber(req.orderNumber)
                 /\ ~ContactAuthenticates(Candidates[i], ContactOf(req)))
    => resp.status = 404 /\ ~Succeeded(resp.body)

\* C3: NotFound does not tell whether the order number exists: two lookups
\* with the same contact, one whose number matches no order and one whose
\* number matches an order of another contact, get the same status and body.
C3_NotFoundUniform ==
  (/\ Answered /\ ~Succeeded(result)
   /\ prev.seen
   /\ prev.contact = ContactOf(req)
   /\ prev.numberKnown # (Len(Candidates) > 0))
    => prev.status = resp.status /\ prev.body = resp.body

\* C4: once a lookup has resolved an order, the caller gets the 200 response
\* carrying the result, whether the analytics write succeeded or threw.
C4_AnalyticsTransparent ==
  (pc = "done" /\ Succeeded(result) /\ analytics \in {"ok", "threw"})
    => resp.status = 200 /\ resp.body = result

\* C5: a transport/API error of the order query reaches the caller as a
\* service error that asks to try again later, an outcome other than the
\* NotFound one (HTTP 404).
C5_TransportErrorIsServiceError ==
  (pc = "done" /\ platform = "throw")
    => /\ resp.status # 404
       /\ "message" \in DOMAIN resp.body
       /\ resp.body.message = "Please try again later"

\* C6: a request without order number or without contact is rejected with 400
\* before any settings, token, order, fulfillment or analytics call, in every
\* lookup endpoint.
C6_ValidationBeforeCalls ==
  (pc = "done" /\ resp.status = 400) => calls = << >>

\* a tracking snapshot: a success object with carrier, tracking number, status
\* and tracking URL
IsSnapshot(r) ==
  /\ "success" \in DOMAIN r /\ r.success
  /\ {"carrier", "trackingNumber", "status", "trackingUrl"} \subseteq DOMAIN r

TrackSettled == tpc \in {"returned", "threw"}

StatusBuckets == <<
  [keywords |-> {kw_delivered}, canonical |-> st_Delivered],
  [keywords |-> {kw_out_for_delivery}, canonical |-> st_OutForDelivery],
  [keywords |-> {kw_in_transit, kw_on_the_way}, canonical |-> st_InTransit],
  [keywords |-> {kw_picked_up, kw_collected}, canonical |-> st_PickedUp],
  [keywords |-> {kw_processing, kw_preparing}, canonical |-> st_Processing],
  [keywords |-> {kw_exception, kw_delayed}, canonical |-> st_Exception],
  [keywords |-> {kw_returned}, canonical |-> st_Returned] >>

\* the buckets one of whose keywords occurs in raw, letter case ignored
BucketHits(raw) ==
  LET folded == [i \in 1..Len(raw) |-> LowerChar(raw[i])] IN
  {i \in 1..Len(StatusBuckets) :
     \E kw \in StatusBuckets[i].keywords :
       \E k \in 0..(Len(raw) - Len(kw)) : SubSeq(folded, k + 1, k + Len(kw)) = kw}

ReferenceStatus(raw) ==
  IF raw = Null \/ raw = << >> THEN st_Unknown
  ELSE LET hits == BucketHits(raw) IN
       IF hits = {} THEN raw
       ELSE StatusBuckets[CHOOSE i \in hits : \A j \in hits : i <= j].canonical

\* a live snapshot was built from a carrier response
LiveReturned == tpc = "returned" /\ "kind" \in DOMAIN tOut /\ tOut.kind = "info"

\* C9: normalize equals the reference mapping: null or empty gives Unknown, the
\* first matching bucket in the fixed order decides, an unmatched string is
\* returned as it is; 'Delivered to front door' gives Delivered and 'Package is
\* out for delivery' gives Out for Delivery.
C9_NormalizeIsReference ==
  LiveReturned =>
    /\ tResult.status = ReferenceStatus(tOut.description)
    /\ (tOut.description = f_Delivered \o f_to_front_door => tResult.status = st_Delivered)
    /\ (tOut.description = f_Package_is \o f_out_for_delivery
          => tResult.status = st_OutForDelivery)

\* a status that names two buckets took the first one
C9_Witness ==
  /\ LiveReturned
  /\ tOut.description = f_out_for_delivery \o f_Delivered
  /\ tResult.status = st_Delivered

CanonicalStatuses ==
  {st_Delivered, st_OutForDelivery, st_InTransit, st_PickedUp, st_Processing,
   st_Exception, st_Returned, st_Unknown}

\* C10: the status of every snapshot the tracking client produces is a member
\* of the canonical status enum.
C10_StatusCanonical ==
  (tpc = "returned" /\ IsSnapshot(tResult)) => tResult.status \in CanonicalStatuses

\* the order queries the current lookup has sent to the platform
OrderQueries == {i \in 1..Len(calls) : calls[i].op = "orders.get"}

\* C11: order-number cleaning is idempotent: the cleaned value a lookup queries
\* the platform with is left as it is by cleaning it again, and '#1001' and
\* '1001' both query with '1001'.
C11_CleaningIdempotent ==
  (req.endpoint \in {"tracking", "server", "orders"}) =>
    \A i \in OrderQueries :
      /\ cleanOrderNumber(calls[i].arg) = calls[i].arg
      /\ (req.orderNumber \in {on_1001, on_h1001} => calls[i].arg = on_1001)

\* the fulfillments and the enhanced snapshot a lookup response carries, at the
\* top level of the body or inside its order
BodyFulfillments(body) ==
  IF "fulfillments" \in DOMAIN body THEN body.fulfillments
  ELSE IF "order" \in DOMAIN body /\ "fulfillments" \in DOMAIN body.order
  THEN body.order.fulfillments
  ELSE << >>

BodyEnhanced(body) ==
  IF "enhancedTracking" \in DOMAIN body THEN body.enhancedTracking
  ELSE IF "order" \in DOMAIN body /\ "enhancedTracking" \in DOMAIN body.order
  THEN body.order.enhancedTracking
  ELSE nullObject

\* the fulfillments of the resolved order that name UPS and carry a tracking number
UpsFulfillments(fulfillments) ==
  {i \in 1..Len(fulfillments) :
     /\ fulfillments[i].tracking_company = c_UPS
     /\ Truthy(fulfillments[i].tracking_number)}

\* C12: a Found lookup of an order whose fulfillment has carrier 'UPS' and a
\* tracking number, with no UPS credential configured, answers success: true,
\* lists that tracking number and carries an enhancedTracking snapshot with
\* isLiveData = false and a trackingUrl containing 'ups.com'.
C12_UpsEndToEnd ==
  (/\ pc = "done" /\ Succeeded(result) /\ "ups" \notin apiKeys
   /\ UpsFulfillments(result.order.fulfillments) # {})
    => /\ resp.status = 200 /\ Succeeded(resp.body)
       /\ \A i \in UpsFulfillments(result.order.fulfillments) :
            \E j \in 1..Len(BodyFulfillments(resp.body)) :
              BodyFulfillments(resp.body)[j].tracking_number
                = result.order.fulfillments[i].tracking_number
       /\ IsSnapshot(BodyEnhanced(resp.body))
       /\ "isLiveData" \in DOMAIN BodyEnhanced(resp.body)
       /\ BodyEnhanced(resp.body).isLiveData = FALSE
       /\ includes(BodyEnhanced(resp.body).trackingUrl, <<"ups.com">>)

\* tracking is enabled for the shop: it has settings, and the tracking page or
\* the tracking block is switched on
TrackingEnabled ==
  settings.exists /\ (settings.trackingPageEnabled \/ settings.trackingBlockEnabled)

\* the public lookup has read the shop's settings
SettingsWereRead ==
  \E i \in 1..Len(calls) :
    calls[i].op = "Database.getSettings" /\ calls[i].out = "resolved"

\* C13: when the public lookup has read the settings of a shop for which
\* tracking is not enabled, it answers 'Tracking service not available', sends
\* the platform no order or fulfillment query and records no analytics view.
C13_SettingsGate ==
  (req.endpoint = "tracking" /\ SettingsWereRead /\ ~TrackingEnabled) =>
    /\ pc = "done"
    /\ resp = [status |-> 404, body |-> [error |-> "Tracking service not available"]]
    /\ \A i \in 1..Len(calls) :
         calls[i].op \notin {"orders.get", "fulfillments.get", "Database." \o RecordMethod}
    /\ analytics = "none"

\* a shop whose settings row has both switches off was turned away
C13_Witness ==
  /\ pc = "done" /\ req.endpoint = "tracking"
  /\ settings.exists /\ ~settings.trackingPageEnabled /\ ~settings.trackingBlockEnabled
  /\ resp.status = 404
  /\ resp.body = [error |-> "Tracking service not available"]

\* the fulfillments that carry both a carrier name and a tracking number
Eligible(fulfillments) ==
  {i \in 1..Len(fulfillments) :
     /\ Truthy(fulfillments[i].tracking_company)
     /\ Truthy(fulfillments[i].tracking_number)}

\* the admin tracking endpoint has fetched the fulfillments of the resolved order
FulfillmentsFetched ==
  req.endpoint = "simple" /\ "fulfillments" \in DOMAIN result

\* C14: the tracking client is invoked only with a non-empty carrier and a
\* non-empty tracking number, both taken from one fulfillment of the order (from
\* the order shown, for the TrackingDetails component); a fulfillment list
\* without such a fulfillment triggers no call.
C14_TrackOnlyWithCarrierAndNumber ==
  /\ (tpc # "idle") =>
       /\ Truthy(tCarrier) /\ Truthy(tNumber)
       /\ (req.endpoint = "simple" =>
             \E i \in 1..Len(result.fulfillments) :
               /\ result.fulfillments[i].tracking_company = tCarrier
               /\ result.fulfillments[i].tracking_number = tNumber)
       /\ (req.endpoint = "details" =>
             req.trackingCompany = tCarrier /\ req.trackingNumber = tNumber)
  /\ (FulfillmentsFetched /\ Eligible(result.fulfillments) = {}) =>
       /\ tpc = "idle"
       /\ \A i \in 1..Len(calls) : calls[i].op # "getTrackingInfo"

\* an order whose only fulfillment has a tracking number and an empty carrier
\* name was answered without a call to the tracking client
C14_Witness ==
  /\ pc = "done" /\ FulfillmentsFetched
  /\ Len(result.fulfillments) = 1
  /\ result.fulfillments[1].tracking_company = << >>
  /\ result.fulfillments[1].tracking_number = n_1Z9
  /\ tpc = "idle" /\ resp.status = 200

\* C16: for every fulfillment list with a fulfillment that carries both carrier
\* and tracking number, the tracking client is invoked exactly once, with the
\* carrier and tracking number of the earliest such fulfillment, even when
\* earlier fulfillments lack tracking data.
C16_FirstEligibleEnhanced ==
  (pc = "done" /\ FulfillmentsFetched /\ Eligible(result.fulfillments) # {}) =>
    LET first == CHOOSE i \in Eligible(result.fulfillments) :
                   \A j \in Eligible(result.fulfillments) : i <= j
        trackCalls == {i \in 1..Len(calls) : calls[i].op = "getTrackingInfo"}
    IN /\ Cardinality(trackCalls) = 1
       /\ \A i \in trackCalls :
            calls[i].arg = <<result.fulfillments[first].tracking_company,
                             result.fulfillments[first].tracking_number>>

\* C15: the response to a successful public lookup is sent without waiting for
\* the analytics write: when the response has gone out the lookup's result is
\* in it and the analytics write has not yet settled.
C15_ResponseNotAfterAnalytics ==
  (pc = "done" /\ req.endpoint = "tracking" /\ Succeeded(result)) =>
    /\ resp.status = 200 /\ resp.body = result
    /\ analytics \notin {"ok", "threw"}

\* how the fulfillment query of the current lookup settled
FulfillmentQueryOutcomes ==
  {calls[i].out : i \in {j \in 1..Len(calls) : calls[j].op = "fulfillments.get"}}

IsFallback(r) == IsSnapshot(r) /\ "isLiveData" \in DOMAIN r /\ r.isLiveData = FALSE

\* C18: a track call makes at most one carrier request, and none when the key
\* of the carrier it dispatched to is absent or the carrier is unrecognised:
\* it then returns the fallback snapshot directly; a request that failed is
\* followed by the fallback snapshot, not by another request.
C18_AtMostOneRequest ==
  /\ tRequests <= 1
  /\ (tpc = "returned" /\ tAdapter # "none"
        /\ (tAdapter = "fallback" \/ tAdapter \notin apiKeys))
       => tRequests = 0 /\ IsFallback(tResult)
  /\ (tpc = "returned" /\ "kind" \in DOMAIN tOut /\ tOut.kind # "info")
       => tRequests = 1 /\ IsFallback(tResult)
  /\ (tpc \in {"idle", "call", "request"}) => tRequests = 0

\* a carrier with a configured key was asked once, the request failed, and the
\* call returned the fallback snapshot
C18_Witness ==
  /\ tpc = "returned" /\ tAdapter \in apiKeys
  /\ "kind" \in DOMAIN tOut /\ tOut.kind = "throw"
  /\ tRequests = 1 /\ IsFallback(tResult)

\* the table entries whose key occurs in the carrier name, letter case ignored
KeysInName(carrier) ==
  {i \in 1..Len(trackingUrls) : includes(toLowerCase(carrier), trackingUrls[i].key)}

\* C19: the trackingUrl of a fallback snapshot is the template of the first
\* table entry whose key is a case-insensitive substring of the carrier name,
\* followed by the tracking number; for a carrier name that contains none of
\* the keys it is the web-search URL with the carrier name and the tracking
\* number in its query.
C19_FallbackUrlResolution ==
  (tpc = "returned" /\ IsFallback(tResult)) =>
    LET hits == KeysInName(tResult.carrier) IN
    IF hits # {}
    THEN tResult.trackingUrl
           = trackingUrls[CHOOSE i \in hits : \A j \in hits : i <= j].url \o tNumber
    ELSE /\ SubSeq(tResult.trackingUrl, 1, Len(googleSearch)) = googleSearch
         /\ includes(tResult.trackingUrl, encodeURIComponent(tResult.carrier))
         /\ includes(tResult.trackingUrl, encodeURIComponent(tNumber))

\* a live snapshot: built from a carrier response that has tracking info
IsLive(r) == "isLiveData" \in DOMAIN r /\ r.isLiveData = TRUE

\* C20: isLiveData tells the origin of every snapshot: true when it was built
\* from a carrier API response, false when it is the synthesized fallback.
C20_LiveFlagTellsOrigin ==
  (tpc = "returned" /\ IsSnapshot(tResult)) =>
    /\ "isLiveData" \in DOMAIN tResult
    /\ tResult.isLiveData = (tRequests = 1 /\ tOut.kind = "info")

\* C21: the filter of the order query depends on the order number only: it is
\* the filter a lookup with the same order number and any other contact would
\* send, and a contact mismatch is found on fetched candidates, after the query.
C21_QueryIgnoresContact ==
  (req.endpoint \in {"tracking", "server", "orders"}) =>
    /\ \A i \in OrderQueries :
         \A c \in ContactInputs \ {Null} :
           calls[i].arg = cleanOrderNumber(req.orderNumber)
             /\ calls[i].arg = ordersQueryName(req.orderNumber, c)
    /\ (result = ContactNotFound) =>
         /\ OrderQueries # {}
         /\ Len(Candidates) > 0

\* the platform was asked for '1001' by a lookup whose contact is not the
\* order's, and the mismatch was found on the candidates it returned
C21_Witness ==
  /\ pc = "done" /\ req.orderNumber = on_h1001 /\ ContactOf(req) = em_bob
  /\ platform = "exact" /\ result = ContactNotFound
  /\ \E i \in OrderQueries : calls[i].arg = on_1001

\* the fulfillment queries the current lookup has sent to the platform
FulfillmentQueries == {i \in 1..Len(calls) : calls[i].op = "fulfillments.get"}

\* the terminal outcomes a response stands for
IsFound(r) == r.status = 200 /\ Succeeded(r.body)

IsNotFound(r) == r.status = 404 /\ ~Succeeded(r.body)

IsServiceError(r) == r.status = 500 /\ ~Succeeded(r.body)

C22_State ==
  (req.endpoint \in {"tracking", "server", "orders"}) =>
    /\ Cardinality(OrderQueries) <= 1
    /\ Cardinality(FulfillmentQueries) <= 1
    /\ \A j \in FulfillmentQueries :
         /\ \E i \in OrderQueries : i < j /\ calls[i].out # "throw"
         /\ Succeeded(result)
    /\ (pc # "done") => resp = NoResponse
    /\ (pc = "done" /\ OrderQueries # {}) =>
         Cardinality({o \in {"Found", "NotFound", "ServiceError"} :
                        \/ o = "Found" /\ IsFound(resp)
                        \/ o = "NotFound" /\ IsNotFound(resp)
                        \/ o = "ServiceError" /\ IsServiceError(resp)}) = 1

\* a response that has been sent is not followed by another one for the same
\* request, and no query follows it
C22_Step ==
  (resp # NoResponse) =>
    \/ resp' = resp /\ calls' = calls
    \/ resp' = NoResponse /\ req' = NoRequest

\* C22: the lookup is linear and without retries: it issues the order query at
\* most once, the fulfillment query at most once and only after the order query
\* resolved an order, sends no response before it ends and exactly one when it
\* ends, and that response is exactly one of Found, NotFound and ServiceError.
C22_LinearLookup == []C22_State /\ [][C22_Step]_vars

\* a lookup that issued both queries once and has answered
C22_Witness ==
  /\ pc = "done" /\ req.endpoint = "tracking"
  /\ Cardinality(OrderQueries) = 1 /\ Cardinality(FulfillmentQueries) = 1
  /\ resp # NoResponse

\* the key that names each known carrier
KnownKey(a) ==
  CASE a = "ups" -> key_ups [] a = "fedex" -> key_fedex
    [] a = "usps" -> key_usps [] a = "dhl" -> key_dhl

\* the known carriers the carrier name of the call names
NamedCarriers == {a \in AdapterNames : includes(toLowerCase(tCarrier), KnownKey(a))}

IsFrom(r, route) == "route" \in DOMAIN r /\ r.route = route

\* the step is a logo upload that wrote the row of a shop that had one
C24_Step ==
  (/\ IsFrom(apiResp', "settings.upload-logo") /\ apiResp'.status = 200
   /\ settings.exists /\ settings' # settings) =>
    /\ settings'.logoUrl = apiResp'.body.logoUrl
    /\ settings'.trackingPageEnabled = settings.trackingPageEnabled
    /\ settings'.trackingBlockEnabled = settings.trackingBlockEnabled
    /\ settings'.pageTitle = settings.pageTitle
    /\ ~trackingDisabled(settings) => ~trackingDisabled(settings')

\* C24: a logo upload changes only the logo of the shop's stored settings: the
\* two enabling flags and the page title keep their values, and a shop whose
\* public lookup passed the settings gate before the upload passes it after.
C24_UploadLogoFrame == [][C24_Step]_vars

\* the public lookup reads the shop's token while the shop has a stored row
C26_Step ==
  (/\ shopData # Null /\ req.endpoint = "tracking"
   /\ pc = "token" /\ pc' # "token") =>
    token' = shopData

\* C26: once the OAuth callback has stored the shop's access token, a public
\* lookup that resolves its token gets the stored token, not the environment's.
C26_StoredTokenUsed == [][C26_Step]_vars

\* the last admin request was a GET settings that reported the tracking page
\* enabled; no admin request has changed the stored settings since
ReportsPageEnabled ==
  /\ IsFrom(apiResp, "settings.get") /\ apiResp.status = 200
  /\ apiResp.body.settings.trackingPageEnabled

C27_Step ==
  (ReportsPageEnabled /\ pc = "settings") =>
    resp' # [status |-> 404, body |-> [error |-> "Tracking service not available"]]

\* C27: while GET settings reports trackingPageEnabled = true for the shop, the
\* settings gate of a public lookup does not answer 'Tracking service not
\* available'.
C27_GateAgreesWithView == [][C27_Step]_vars

\* the shop domain the request names: the Referer's myshopify.com shop, or
\* else the X-Shop-Domain header
NamedShop(request) ==
  LET fromReferer == refererMatch(headerOrEmpty(request.referer))
  IN IF fromReferer # Null THEN fromReferer \o sd_suffix
     ELSE headerOrEmpty(request.header)

C29_Step ==
  /\ (views' # views) =>
       /\ IsFrom(apiResp', "analytics.track")
       /\ apiResp'.request.event = "order_lookup_success"
       /\ Truthy(apiResp'.request.order_number)
       /\ views' = views \cup {[shopDomain |-> NamedShop(apiResp'.request),
                                 orderNumber |-> apiResp'.request.order_number]}
  /\ (IsFrom(apiResp', "analytics.track") /\ ~Truthy(NamedShop(apiResp'.request))) =>
       /\ apiResp'.status = 400
       /\ apiResp'.body = [error |-> "Shop domain not found"]
       /\ views' = views

\* C29: POST /analytics/track records a view only for 'order_lookup_success'
\* with an order number, under the shop named by the Referer or else by the
\* X-Shop-Domain header, and answers 400 'Shop domain not found' without
\* recording when neither names a shop.
C29_TrackRecordsUnderShop == [][C29_Step]_vars

\* C25: a lookup that resolves an order resolves one whose number is the
\* requested order number with its leading '#' stripped, whatever candidates
\* the platform's order search returned.
C25_FoundIsRequested ==
  Succeeded(result) =>
    result.order.order_number = cleanOrderNumber(req.orderNumber)

\* the answer of the lookup route to a body that fails its validation
ValidationAnswer(body) ==
  [kind |-> "response", status |-> 400,
   body |-> ValidationBody(lookupRequestOf(body))]

\* C28: a lookup a widget sends after its own validation passed carries the
\* fields the lookup route reads, so it passes the route's validation and does
\* not settle with the 400 'Order number and email or phone are required'.
C28_SubmitPassesValidation ==
  /\ \A i \in 1..Len(net) : ~Invalid(lookupRequestOf(net[i]))
  /\ (settled # NoSettled) => settled.response # ValidationAnswer(settled.body)

C30_State ==
  (widget = "OrderTracker") =>
    /\ Len(net) <= 1
    /\ loadingState <=> (Len(net) = 1)

C30_Step ==
  (widget = "OrderTracker" /\ Len(net') < Len(net)) => ~loadingState'

\* C30: the OrderTracker widget has at most one lookup in flight under every
\* interleaving of submits and settled fetches, is loading exactly while one
\* is in flight, and is no longer loading once a lookup has settled.
C30_SingleFlight == []C30_State /\ [][C30_Step]_vars

\* a first lookup has settled and a second one is in flight
C30_Witness ==
  /\ widget = "OrderTracker" /\ settled # NoSettled
  /\ Len(net) = 1 /\ loadingState

====
